---- MODULE Spec2Model ----
(***************************************************************************)
(* Model of the Tetris engine of tetris_gui.py (class TetrisApp): the      *)
(* board, the active and the next piece, score, speed, the running flag,   *)
(* the <r> key binding and the Tk timer queue fed by root.after.           *)
(***************************************************************************)
EXTENDS Integers, Sequences, FiniteSets, TLC

\* ------------------------------------------------------------------ bounds
\* Number of events (key presses, timer firings) explored after a start state.
MaxSteps == 3
\* Number of two-line clearing rounds replayed before the speed-floor start state.
FloorRounds == 16
\* Number of freely chosen bottom rows of the boards given to clear_lines alone.
MaxRows == 4
\* Rotation indices looked up on their own range over -MaxIndex..MaxIndex.
MaxIndex == 8

\* --------------------------------------------------------------- constants
BOARD_WIDTH == 10
BOARD_HEIGHT == 20
TICK_MS == 600
SPEEDUP_PER_LINE == 15
MIN_TICK_MS == 120

\* Python's None (an empty cell, no current shape).
None == "None"

\* The texts toggle_pause, end_game and restart put into status_var.
StatusClear == ""
StatusPaused == "Paused"
StatusGameOver == "Game over. Press R to restart."

ShapeNames == {"I", "J", "L", "O", "S", "T", "Z"}

SHAPES ==
  [n \in ShapeNames |->
    CASE n = "I" -> [name |-> "I", color |-> "#00c0f0", rotations |-> <<
             << <<0,1>>, <<1,1>>, <<2,1>>, <<3,1>> >>,
             << <<2,0>>, <<2,1>>, <<2,2>>, <<2,3>> >> >>]
      [] n = "J" -> [name |-> "J", color |-> "#0000f0", rotations |-> <<
             << <<0,0>>, <<0,1>>, <<1,1>>, <<2,1>> >>,
             << <<1,0>>, <<2,0>>, <<1,1>>, <<1,2>> >>,
             << <<0,1>>, <<1,1>>, <<2,1>>, <<2,2>> >>,
             << <<1,0>>, <<1,1>>, <<0,2>>, <<1,2>> >> >>]
      [] n = "L" -> [name |-> "L", color |-> "#f0a000", rotations |-> <<
             << <<2,0>>, <<0,1>>, <<1,1>>, <<2,1>> >>,
             << <<1,0>>, <<1,1>>, <<1,2>>, <<2,2>> >>,
             << <<0,1>>, <<1,1>>, <<2,1>>, <<0,2>> >>,
             << <<0,0>>, <<1,0>>, <<1,1>>, <<1,2>> >> >>]
      [] n = "O" -> [name |-> "O", color |-> "#f0f000", rotations |-> <<
             << <<1,0>>, <<2,0>>, <<1,1>>, <<2,1>> >> >>]
      [] n = "S" -> [name |-> "S", color |-> "#00f000", rotations |-> <<
             << <<1,0>>, <<2,0>>, <<0,1>>, <<1,1>> >>,
             << <<1,0>>, <<1,1>>, <<2,1>>, <<2,2>> >> >>]
      [] n = "T" -> [name |-> "T", color |-> "#a000f0", rotations |-> <<
             << <<1,0>>, <<0,1>>, <<1,1>>, <<2,1>> >>,
             << <<1,0>>, <<1,1>>, <<2,1>>, <<1,2>> >>,
             << <<0,1>>, <<1,1>>, <<2,1>>, <<1,2>> >>,
             << <<1,0>>, <<0,1>>, <<1,1>>, <<1,2>> >> >>]
      [] n = "Z" -> [name |-> "Z", color |-> "#f00000", rotations |-> <<
             << <<0,0>>, <<1,0>>, <<1,1>>, <<2,1>> >>,
             << <<2,0>>, <<1,1>>, <<2,1>>, <<1,2>> >> >>] ]

\* Tetromino.rotation that looks up the state after the one asked for.
rotation_next(shape, index) ==
  shape.rotations[((index + 1) % Len(shape.rotations)) + 1]

\* Tetromino.rotation: the rotation state at index mod the number of states.
rotation(shape, index) == shape.rotations[(index % Len(shape.rotations)) + 1]

\* ------------------------------------------------------------------- state
VARIABLES
  score,             \* self.score
  lines_cleared,     \* self.lines_cleared
  tick_ms,           \* self.tick_ms
  board,             \* self.board: BOARD_HEIGHT rows of BOARD_WIDTH cells, None or a color
  current_shape,     \* self.current_shape: a key of SHAPES, or None
  current_rotation,  \* self.current_rotation
  current_position,  \* self.current_position: <<x, y>>
  next_shape,        \* self.next_shape
  game_running,      \* self.game_running
  status_var,        \* self.status_var
  r_bound,           \* whether <r> is bound to restart (end_game binds, restart unbinds)
  pending,           \* number of self.tick callbacks queued by root.after
  last,              \* what the last handler did (history, not program state)
  steps              \* number of events handled since the start state (history)

vars == <<score, lines_cleared, tick_ms, board, current_shape, current_rotation,
          current_position, next_shape, game_running, status_var, r_bound,
          pending, last, steps>>

\* The application object as one value; the handlers below map it to its successor.
\* locked, written, cleared and spawned record what a handler did, asked the
\* (dx, dy) a key handed to try_move.
Self ==
  [score |-> score, lines_cleared |-> lines_cleared, tick_ms |-> tick_ms,
   board |-> board, current_shape |-> current_shape,
   current_rotation |-> current_rotation, current_position |-> current_position,
   next_shape |-> next_shape, game_running |-> game_running,
   status_var |-> status_var, r_bound |-> r_bound, pending |-> pending,
   locked |-> FALSE, written |-> {}, cleared |-> 0, spawned |-> FALSE,
   asked |-> <<0, 0>>]

EmptyRow == [x \in 1..BOARD_WIDTH |-> None]
EmptyBoard == [y \in 1..BOARD_HEIGHT |-> EmptyRow]

\* ---------------------------------------------------------------- handlers
\* get_blocks: the cells of the current shape at position and rotation.
get_blocks(g, position, rot) ==
  IF g.current_shape = None THEN <<>>
  ELSE LET r == rotation(SHAPES[g.current_shape], rot)
       IN [i \in 1..Len(r) |-> <<position[1] + r[i][1], position[2] + r[i][2]>>]

\* is_valid_position: every cell inside the side walls and above the floor, and
\* no cell of row >= 0 on an occupied board cell.
is_valid_position(g, position, rot) ==
  LET blocks == get_blocks(g, position, rot)
  IN \A i \in 1..Len(blocks) :
       LET x == blocks[i][1]
           y == blocks[i][2]
       IN /\ ~(x < 0 \/ x >= BOARD_WIDTH \/ y >= BOARD_HEIGHT)
          /\ ~(y >= 0 /\ g.board[y + 1][x + 1] # None)

\* schedule_tick: root.after(tick_ms, self.tick) when the game is running.
schedule_tick(g) ==
  IF g.game_running THEN [g EXCEPT !.pending = @ + 1] ELSE g

\* end_game
end_game(g) ==
  [g EXCEPT !.game_running = FALSE, !.status_var = StatusGameOver, !.r_bound = TRUE]

\* spawn_new_piece without its validity check.
spawn_unchecked(g, rnd) ==
  [g EXCEPT !.current_shape = g.next_shape,
            !.next_shape = rnd,
            !.current_rotation = 0,
            !.current_position = <<(BOARD_WIDTH \div 2) - 2, 0>>,
            !.spawned = TRUE]

\* spawn_new_piece that makes the new random shape the active piece.
spawn_fresh(g, rnd) ==
  LET g1 == [g EXCEPT !.current_shape = rnd,
                      !.next_shape = rnd,
                      !.current_rotation = 0,
                      !.current_position = <<(BOARD_WIDTH \div 2) - 2, 0>>,
                      !.spawned = TRUE]
  IN IF ~is_valid_position(g1, g1.current_position, g1.current_rotation)
     THEN end_game(g1)
     ELSE g1

\* spawn_new_piece that puts the origin one row above the board.
spawn_above(g, rnd) ==
  LET g1 == [g EXCEPT !.current_shape = g.next_shape,
                      !.next_shape = rnd,
                      !.current_rotation = 0,
                      !.current_position = <<(BOARD_WIDTH \div 2) - 2, 0 - 1>>,
                      !.spawned = TRUE]
  IN IF ~is_valid_position(g1, g1.current_position, g1.current_rotation)
     THEN end_game(g1)
     ELSE g1

\* spawn_new_piece; rnd is the result of random_shape().
spawn_new_piece(g, rnd) ==
  LET g1 == [g EXCEPT !.current_shape = g.next_shape,
                      !.next_shape = rnd,
                      !.current_rotation = 0,
                      !.current_position = <<(BOARD_WIDTH \div 2) - 2, 0>>,
                      !.spawned = TRUE]
  IN IF ~is_valid_position(g1, g1.current_position, g1.current_rotation)
     THEN end_game(g1)
     ELSE g1

\* clear_lines: the board without its full rows, refilled with empty rows on
\* top, and the number of rows removed.
IsFullRow(row) == \A x \in 1..Len(row) : row[x] # None

\* refill that puts the empty rows under the kept rows.
RECURSIVE refill_bottom(_)
refill_bottom(new_board) ==
  IF Len(new_board) < BOARD_HEIGHT THEN refill_bottom(new_board \o <<EmptyRow>>)
  ELSE new_board

RECURSIVE refill(_)
refill(new_board) ==
  IF Len(new_board) < BOARD_HEIGHT THEN refill(<<EmptyRow>> \o new_board)
  ELSE new_board

\* clear_lines that removes no row.
clear_none(b) == [board |-> b, cleared |-> 0]

clear_lines(b) ==
  LET new_board == SelectSeq(b, LAMBDA row : ~IsFullRow(row))
      cleared == BOARD_HEIGHT - Len(new_board)
  IN [board |-> refill(new_board), cleared |-> cleared]

\* The loop of lock_piece over get_blocks: cells of row < 0 are skipped, the
\* others get the color of the current shape.
RECURSIVE write_blocks(_, _, _, _)
write_blocks(b, blocks, color, i) ==
  IF i > Len(blocks) THEN b
  ELSE LET x == blocks[i][1]
           y == blocks[i][2]
       IN IF y < 0 THEN write_blocks(b, blocks, color, i + 1)
          ELSE write_blocks([b EXCEPT ![y + 1][x + 1] = color], blocks, color, i + 1)

Max(a, b) == IF a >= b THEN a ELSE b

\* award with a score linear in the number of lines.
award_linear(g, lines) ==
  IF lines # 0
  THEN LET total == g.lines_cleared + lines
       IN [g EXCEPT !.lines_cleared = total,
                    !.score = g.score + lines * 100,
                    !.tick_ms = Max(MIN_TICK_MS, TICK_MS - total * SPEEDUP_PER_LINE)]
  ELSE g

\* award without the floor of MIN_TICK_MS.
award_no_floor(g, lines) ==
  IF lines # 0
  THEN LET total == g.lines_cleared + lines
       IN [g EXCEPT !.lines_cleared = total,
                    !.score = g.score + (lines * lines) * 100,
                    !.tick_ms = TICK_MS - total * SPEEDUP_PER_LINE]
  ELSE g

\* The score, line count and speed update of lock_piece for `lines` cleared rows.
award(g, lines) ==
  IF lines # 0
  THEN LET total == g.lines_cleared + lines
       IN [g EXCEPT !.lines_cleared = total,
                    !.score = g.score + (lines * lines) * 100,
                    !.tick_ms = Max(MIN_TICK_MS, TICK_MS - total * SPEEDUP_PER_LINE)]
  ELSE g

\* lock_piece
lock_piece(g, rnd) ==
  IF g.current_shape = None THEN g
  ELSE LET blocks == get_blocks(g, g.current_position, g.current_rotation)
           cl == clear_lines(write_blocks(g.board, blocks,
                                          SHAPES[g.current_shape].color, 1))
           g1 == [g EXCEPT !.board = cl.board,
                           !.locked = TRUE,
                           !.written = {blocks[i] : i \in {j \in 1..Len(blocks) : blocks[j][2] >= 0}},
                           !.cleared = cl.cleared]
       IN spawn_new_piece(award(g1, cl.cleared), rnd)

\* try_move without its game_running guard.
try_move_unguarded(g, dx, dy) ==
  LET new_pos == <<g.current_position[1] + dx, g.current_position[2] + dy>>
  IN IF is_valid_position(g, new_pos, g.current_rotation)
     THEN [g EXCEPT !.current_position = new_pos]
     ELSE g

\* try_move that also asks for room one step further in the same direction.
try_move_margin(g, dx, dy) ==
  IF ~g.game_running THEN g
  ELSE LET new_pos == <<g.current_position[1] + dx, g.current_position[2] + dy>>
           beyond == <<new_pos[1] + dx, new_pos[2] + dy>>
       IN IF /\ is_valid_position(g, new_pos, g.current_rotation)
             /\ is_valid_position(g, beyond, g.current_rotation)
          THEN [g EXCEPT !.current_position = new_pos]
          ELSE g

\* try_move
try_move(g, dx, dy) ==
  IF ~g.game_running THEN g
  ELSE LET new_pos == <<g.current_position[1] + dx, g.current_position[2] + dy>>
       IN IF is_valid_position(g, new_pos, g.current_rotation)
          THEN [g EXCEPT !.current_position = new_pos]
          ELSE g

\* try_rotate with a wall kick: a rotation that collides is tried again one
\* column to the left.
try_rotate_kick(g) ==
  IF ~g.game_running \/ g.current_shape = None THEN g
  ELSE LET new_rot == (g.current_rotation + 1) % Len(SHAPES[g.current_shape].rotations)
           kicked == <<g.current_position[1] - 1, g.current_position[2]>>
       IN IF is_valid_position(g, g.current_position, new_rot)
          THEN [g EXCEPT !.current_rotation = new_rot]
          ELSE IF is_valid_position(g, kicked, new_rot)
          THEN [g EXCEPT !.current_rotation = new_rot, !.current_position = kicked]
          ELSE g

\* try_rotate
try_rotate(g) ==
  IF ~g.game_running \/ g.current_shape = None THEN g
  ELSE LET new_rot == (g.current_rotation + 1) % Len(SHAPES[g.current_shape].rotations)
       IN IF is_valid_position(g, g.current_position, new_rot)
          THEN [g EXCEPT !.current_rotation = new_rot]
          ELSE g

\* The loop of hard_drop stopping after one row.
drop_one_row(g) ==
  IF is_valid_position(g, <<g.current_position[1], g.current_position[2] + 1>>,
                       g.current_rotation)
  THEN [g EXCEPT !.current_position =
           <<g.current_position[1], g.current_position[2] + 1>>]
  ELSE g

\* The while loop of hard_drop.
RECURSIVE drop_loop(_)
drop_loop(g) ==
  IF is_valid_position(g, <<g.current_position[1], g.current_position[2] + 1>>,
                       g.current_rotation)
  THEN drop_loop([g EXCEPT !.current_position =
                     <<g.current_position[1], g.current_position[2] + 1>>])
  ELSE g

\* hard_drop
hard_drop(g, rnd) ==
  IF ~g.game_running THEN g
  ELSE lock_piece(drop_loop(g), rnd)

\* tick that moves the piece two rows when both rows below are free.
tick_two_rows(g, manual, rnd) ==
  IF ~g.game_running \/ g.current_shape = None THEN g
  ELSE LET new_pos == <<g.current_position[1], g.current_position[2] + 1>>
           below == <<g.current_position[1], g.current_position[2] + 2>>
           g1 == IF is_valid_position(g, new_pos, g.current_rotation)
                 THEN IF is_valid_position(g, below, g.current_rotation)
                      THEN [g EXCEPT !.current_position = below]
                      ELSE [g EXCEPT !.current_position = new_pos]
                 ELSE lock_piece(g, rnd)
       IN IF ~manual THEN schedule_tick(g1) ELSE g1

\* tick that leaves the piece where it is while the row below is free.
tick_stuck(g, manual, rnd) ==
  IF ~g.game_running \/ g.current_shape = None THEN g
  ELSE LET new_pos == <<g.current_position[1], g.current_position[2] + 1>>
           g1 == IF is_valid_position(g, new_pos, g.current_rotation)
                 THEN g
                 ELSE lock_piece(g, rnd)
       IN IF ~manual THEN schedule_tick(g1) ELSE g1

\* tick
tick(g, manual, rnd) ==
  IF ~g.game_running \/ g.current_shape = None THEN g
  ELSE LET new_pos == <<g.current_position[1], g.current_position[2] + 1>>
           g1 == IF is_valid_position(g, new_pos, g.current_rotation)
                 THEN [g EXCEPT !.current_position = new_pos]
                 ELSE lock_piece(g, rnd)
       IN IF ~manual THEN schedule_tick(g1) ELSE g1

\* toggle_pause
toggle_pause(g) ==
  LET g1 == [g EXCEPT !.game_running = ~g.game_running]
  IN IF g1.game_running
     THEN schedule_tick([g1 EXCEPT !.status_var = StatusClear])
     ELSE [g1 EXCEPT !.status_var = StatusPaused]

\* restart without the reset of the board.
restart_keep_board(g, rnd1, rnd2) ==
  LET g1 == [g EXCEPT !.score = 0,
                      !.lines_cleared = 0,
                      !.tick_ms = TICK_MS,
                      !.status_var = StatusClear,
                      !.current_shape = None,
                      !.next_shape = rnd1,
                      !.game_running = TRUE,
                      !.r_bound = FALSE]
  IN schedule_tick(spawn_new_piece(g1, rnd2))

\* restart; rnd1 and rnd2 are the two results of random_shape().
restart(g, rnd1, rnd2) ==
  LET g1 == [g EXCEPT !.board = EmptyBoard,
                      !.score = 0,
                      !.lines_cleared = 0,
                      !.tick_ms = TICK_MS,
                      !.status_var = StatusClear,
                      !.current_shape = None,
                      !.next_shape = rnd1,
                      !.game_running = TRUE,
                      !.r_bound = FALSE]
  IN schedule_tick(spawn_new_piece(g1, rnd2))

\* __init__; rnd1 and rnd2 are the two results of random_shape().
Construct(rnd1, rnd2) ==
  LET g0 == [score |-> 0, lines_cleared |-> 0, tick_ms |-> TICK_MS,
             board |-> EmptyBoard, current_shape |-> None,
             current_rotation |-> 0, current_position |-> <<3, 0>>,
             next_shape |-> rnd1, game_running |-> TRUE,
             status_var |-> StatusClear, r_bound |-> FALSE, pending |-> 0,
             locked |-> FALSE, written |-> {}, cleared |-> 0, spawned |-> FALSE,
             asked |-> <<0, 0>>]
  IN schedule_tick(spawn_new_piece(g0, rnd2))

\* bind_events: the handler each key runs (<r> only while end_game's binding stands).
Press(g, key, rnd) ==
  CASE key = "Left" -> try_move(g, -1, 0)
    [] key = "Right" -> try_move(g, 1, 0)
    [] key = "Down" -> tick(g, TRUE, rnd)
    [] key = "Up" -> try_rotate(g)
    [] key = "space" -> hard_drop(g, rnd)
    [] key = "p" -> toggle_pause(g)
    [] OTHER -> g

\* ------------------------------------------------------------ start states
\* A start state is the state of the program after __init__ and a recorded
\* sequence of key presses: each is built by running the handlers above.
Rep(key, n) == [i \in 1..n |-> key]

RECURSIVE Replay(_, _)
Replay(g, events) ==
  IF g.pending >= 0 /\ events = <<>> THEN g
  ELSE Replay(Press(g, Head(events)[1], Head(events)[2]), Tail(events))

\* A plan lists the pieces in the order they fall, each with the keys pressed
\* before its hard drop; the last piece is left falling. nxt is the shape
\* random_shape() returns once the plan's pieces are used up.
RECURSIVE PlanEvents(_, _, _)
PlanEvents(plan, i, nxt) ==
  IF i > Len(plan) THEN <<>>
  ELSE LET keys == [k \in 1..Len(plan[i][2]) |-> <<plan[i][2][k], nxt>>]
       IN IF i = Len(plan) THEN keys
          ELSE keys
               \o << <<"space", IF i + 2 <= Len(plan) THEN plan[i + 2][1] ELSE nxt>> >>
               \o PlanEvents(plan, i + 1, nxt)

Played(plan, nxt) ==
  Replay(Construct(plan[1][1], IF Len(plan) >= 2 THEN plan[2][1] ELSE nxt),
         PlanEvents(plan, 1, nxt))

\* Two rows of cols 0..7 from four I pieces, and an O over cols 8..9.
TwoLineRound ==
  << <<"I", Rep("Left", 3)>>, <<"I", Rep("Right", 1)>>,
     <<"I", Rep("Left", 3)>>, <<"I", Rep("Right", 1)>>,
     <<"O", Rep("Right", 4)>> >>

\* The keys of one such round when the same round follows: it clears two lines
\* and leaves the board as it found it, an I falling and an I next.
RoundEvents == PlanEvents(TwoLineRound \o TwoLineRound, 1, "I")

RECURSIVE AfterRounds(_)
AfterRounds(n) ==
  IF n = 0 THEN Construct("I", "I")
  ELSE Replay(AfterRounds(n - 1), SubSeq(RoundEvents, 1, 17))

\* One hard drop away from clearing 1, 2, 3 and 4 lines.
PlanOneLine ==
  << <<"I", Rep("Left", 3)>>, <<"I", Rep("Right", 1)>>, <<"O", Rep("Right", 4)>> >>
PlanTwoLines == TwoLineRound
PlanThreeLines ==
  << <<"I", Rep("Left", 3)>>, <<"I", Rep("Right", 1)>>,
     <<"I", Rep("Left", 3)>>, <<"I", Rep("Right", 1)>>,
     <<"I", Rep("Left", 3)>>, <<"T", Rep("Right", 1)>>,
     <<"L", Rep("Up", 3) \o Rep("Right", 4)>>,
     <<"I", Rep("Up", 1) \o Rep("Right", 4)>> >>
PlanFourLines ==
  << <<"O", Rep("Left", 4)>>, <<"O", Rep("Left", 4)>>,
     <<"O", Rep("Left", 2)>>, <<"O", Rep("Left", 2)>>,
     <<"O", <<>>>>, <<"O", <<>>>>,
     <<"O", Rep("Right", 2)>>, <<"O", Rep("Right", 2)>>,
     <<"I", Rep("Up", 1) \o Rep("Right", 3)>>,
     <<"I", Rep("Up", 1) \o Rep("Right", 4)>> >>
\* Four upright I pieces stacked in column 5 (rows 4..19), a fifth one falling upright.
PlanTower ==
  << <<"I", Rep("Up", 1)>>, <<"I", Rep("Up", 1)>>, <<"I", Rep("Up", 1)>>,
     <<"I", Rep("Up", 1)>>, <<"I", Rep("Up", 1)>> >>
\* An upright I in column 2 under a flat I over cols 0..3 (an overhang over
\* cols 0, 1 and 3), an O falling against the left wall.
PlanOverhang ==
  << <<"I", Rep("Up", 1) \o Rep("Left", 3)>>, <<"I", Rep("Left", 3)>>,
     <<"O", Rep("Left", 4)>> >>
Plans ==
  {PlanOneLine, PlanTwoLines, PlanThreeLines, PlanFourLines, PlanTower, PlanOverhang}

\* 2 * FloorRounds lines cleared, one hard drop away from two more.
FloorState == Replay(AfterRounds(FloorRounds), SubSeq(RoundEvents, 1, 16))

\* The first two results of random_shape() of the fresh games explored: every
\* shape falls first once.
FirstShapes ==
  {<<"I", "J">>, <<"J", "L">>, <<"L", "O">>, <<"O", "S">>, <<"S", "T">>,
   <<"T", "Z">>, <<"Z", "I">>}

StartStates ==
  {Construct(p[1], p[2]) : p \in FirstShapes}
    \cup {Played(plan, "T") : plan \in Plans}
    \cup {FloorState}

\* ----------------------------------------------------------------- actions
Commit(g, op, manual) ==
  /\ score' = g.score
  /\ lines_cleared' = g.lines_cleared
  /\ tick_ms' = g.tick_ms
  /\ board' = g.board
  /\ current_shape' = g.current_shape
  /\ current_rotation' = g.current_rotation
  /\ current_position' = g.current_position
  /\ next_shape' = g.next_shape
  /\ game_running' = g.game_running
  /\ status_var' = g.status_var
  /\ r_bound' = g.r_bound
  /\ pending' = g.pending
  /\ last' = [op |-> op, manual |-> manual, running_before |-> game_running,
              locked |-> g.locked, written |-> g.written, cleared |-> g.cleared,
              spawned |-> g.spawned, asked |-> g.asked,
              from_pos |-> current_position, from_rot |-> current_rotation]

\* The value of last before any event.
NoEvent ==
  [op |-> "init", manual |-> FALSE, running_before |-> TRUE, locked |-> FALSE,
   written |-> {}, cleared |-> 0, spawned |-> FALSE, asked |-> <<0, 0>>,
   from_pos |-> <<0, 0>>, from_rot |-> 0]

Step == steps < MaxSteps /\ steps' = steps + 1

Init ==
  \E g \in StartStates :
    /\ score = g.score
    /\ lines_cleared = g.lines_cleared
    /\ tick_ms = g.tick_ms
    /\ board = g.board
    /\ current_shape = g.current_shape
    /\ current_rotation = g.current_rotation
    /\ current_position = g.current_position
    /\ next_shape = g.next_shape
    /\ game_running = g.game_running
    /\ status_var = g.status_var
    /\ r_bound = g.r_bound
    /\ pending = g.pending
    /\ last = NoEvent
    /\ steps = 0

\* <Left> and <Right>
KeyLeft ==
  Step /\ Commit([try_move(Self, -1, 0) EXCEPT !.asked = <<-1, 0>>], "try_move", TRUE)
KeyRight ==
  Step /\ Commit([try_move(Self, 1, 0) EXCEPT !.asked = <<1, 0>>], "try_move", TRUE)
\* <Up>
KeyUp == Step /\ Commit(try_rotate(Self), "try_rotate", TRUE)
\* <Down>: tick(manual=True)
KeyDown == Step /\ \E rnd \in ShapeNames : Commit(tick(Self, TRUE, rnd), "tick", TRUE)
\* <space>
KeySpace == Step /\ \E rnd \in ShapeNames : Commit(hard_drop(Self, rnd), "hard_drop", TRUE)
\* <p>
KeyP == Step /\ Commit(toggle_pause(Self), "toggle_pause", TRUE)
\* <r>, bound by end_game until restart unbinds it
KeyR ==
  /\ Step
  /\ r_bound
  /\ \E rnd1 \in ShapeNames, rnd2 \in ShapeNames :
       Commit(restart(Self, rnd1, rnd2), "restart", TRUE)
\* A callback queued by root.after runs: tick(manual=False)
TimerFires ==
  /\ Step
  /\ pending > 0
  /\ \E rnd \in ShapeNames :
       Commit(tick([Self EXCEPT !.pending = @ - 1], FALSE, rnd), "tick", FALSE)

Next ==
  \/ KeyLeft
  \/ KeyRight
  \/ KeyUp
  \/ KeyDown
  \/ KeySpace
  \/ KeyP
  \/ KeyR
  \/ TimerFires

Spec == Init /\ [][Next]_vars

\* --------------------------------------------------- clear_lines on its own
\* clear_lines applied once to boards whose top row and MaxRows bottom rows are
\* drawn from RowPatterns, all other rows empty.
FullRow(color) == [x \in 1..BOARD_WIDTH |-> color]
GapRow(color, gap) == [x \in 1..BOARD_WIDTH |-> IF x = gap THEN None ELSE color]
HalfRow(color) == [x \in 1..BOARD_WIDTH |-> IF x % 2 = 0 THEN None ELSE color]

RowPatterns ==
  {EmptyRow, FullRow("#00c0f0"), GapRow("#f0f000", 6), GapRow("#a000f0", 1),
   HalfRow("#f00000")}

GenBoards ==
  {[y \in 1..BOARD_HEIGHT |->
      IF y > BOARD_HEIGHT - MaxRows THEN f[y - (BOARD_HEIGHT - MaxRows)]
      ELSE IF y = 1 THEN top ELSE EmptyRow] :
     f \in [1..MaxRows -> RowPatterns], top \in {EmptyRow, HalfRow("#0000f0")}}

InitClear ==
  /\ board \in GenBoards
  /\ score = 0
  /\ lines_cleared = 0
  /\ tick_ms = TICK_MS
  /\ current_shape = "I"
  /\ current_rotation = 0
  /\ current_position = <<(BOARD_WIDTH \div 2) - 2, 0>>
  /\ next_shape = "J"
  /\ game_running = TRUE
  /\ status_var = StatusClear
  /\ r_bound = FALSE
  /\ pending = 1
  /\ last = NoEvent
  /\ steps = 0

ClearLines ==
  /\ last.op = "init"
  /\ LET cl == clear_lines(board)
     IN /\ board' = cl.board
        /\ last' = [last EXCEPT !.op = "clear_lines", !.cleared = cl.cleared]
  /\ UNCHANGED <<score, lines_cleared, tick_ms, current_shape, current_rotation,
                 current_position, next_shape, game_running, status_var, r_bound,
                 pending, steps>>

SpecClear == InitClear /\ [][ClearLines]_vars

\* ------------------------------------------- Tetromino.rotation on its own
\* The lookup applied to every shape and to every index of -MaxIndex..MaxIndex:
\* current_shape and current_rotation hold the arguments, last.result the
\* value returned.
InitShapes ==
  /\ current_shape \in ShapeNames
  /\ current_rotation \in (0 - MaxIndex)..MaxIndex
  /\ board = EmptyBoard
  /\ score = 0
  /\ lines_cleared = 0
  /\ tick_ms = TICK_MS
  /\ current_position = <<(BOARD_WIDTH \div 2) - 2, 0>>
  /\ next_shape = "J"
  /\ game_running = TRUE
  /\ status_var = StatusClear
  /\ r_bound = FALSE
  /\ pending = 1
  /\ last = [op |-> "init", result |-> <<>>]
  /\ steps = 0

Rotation ==
  /\ last.op = "init"
  /\ last' = [op |-> "rotation",
              result |-> rotation(SHAPES[current_shape], current_rotation)]
  /\ UNCHANGED <<score, lines_cleared, tick_ms, board, current_shape,
                 current_rotation, current_position, next_shape, game_running,
                 status_var, r_bound, pending, steps>>

SpecShapes == InitShapes /\ [][Rotation]_vars

\* ------------------------------------------------- one piece until it locks
\* The piece of a start state under every interleaving of keys and timer ticks,
\* up to its lock. Here steps counts the ticks the piece has received; the
\* game is not paused, and a tick is delivered as long as the piece is falling.
Falling == game_running /\ ~last.locked

Moved == Falling /\ steps' = steps
Ticked == Falling /\ steps <= BOARD_HEIGHT /\ steps' = steps + 1

FallLeft ==
  Moved /\ Commit([try_move(Self, -1, 0) EXCEPT !.asked = <<-1, 0>>], "try_move", TRUE)
FallRight ==
  Moved /\ Commit([try_move(Self, 1, 0) EXCEPT !.asked = <<1, 0>>], "try_move", TRUE)
FallRotate == Moved /\ Commit(try_rotate(Self), "try_rotate", TRUE)
FallDown == Ticked /\ \E rnd \in ShapeNames : Commit(tick(Self, TRUE, rnd), "tick", TRUE)
FallTimer ==
  /\ Ticked
  /\ pending > 0
  /\ \E rnd \in ShapeNames :
       Commit(tick([Self EXCEPT !.pending = @ - 1], FALSE, rnd), "tick", FALSE)
FallDrop == Moved /\ \E rnd \in ShapeNames : Commit(hard_drop(Self, rnd), "hard_drop", TRUE)

NextFall ==
  \/ FallLeft
  \/ FallRight
  \/ FallRotate
  \/ FallDown
  \/ FallTimer
  \/ FallDrop

\* The timer callback is queued while the game runs, and Tk runs it.
SpecFall == Init /\ [][NextFall]_vars /\ WF_vars(FallTimer)

\* ------------------------------------------------------------ running-state
Running == game_running
Paused == ~game_running /\ status_var = StatusPaused
Ended == ~game_running /\ status_var = StatusGameOver

\* The active piece satisfies is_valid_position where it stands.
ValidNow == is_valid_position(Self, current_position, current_rotation)

InGrid(c) == c[1] >= 0 /\ c[1] < BOARD_WIDTH /\ c[2] >= 0 /\ c[2] < BOARD_HEIGHT

GameState ==
  <<board, current_shape, current_rotation, current_position, next_shape,
    score, lines_cleared, tick_ms>>

\* ------------------------------------------------------------------- claims

\* C1: once the engine is Ended, toggle_pause leaves it Ended and arms no timer.
C1_PauseNoEffectInEnded ==
  [][(Ended /\ last'.op = "toggle_pause") => (Ended' /\ pending' = pending)]_vars

\* C2: every cell lock_piece writes is inside the grid and empty just before
\* the write.
C2_LockNeverOverwrites ==
  [][last'.locked =>
       \A c \in last'.written : InGrid(c) /\ board[c[2] + 1][c[1] + 1] = None]_vars

\* C3: whenever the game is Running the active piece is on a valid position.
C3_RunningPieceValid == Running => ValidNow

\* C4: move, rotate, tick and hard_drop change no game state when the engine
\* is not Running.
C4_NoOpWhenNotRunning ==
  [][(~Running /\ last'.op \in {"try_move", "try_rotate", "tick", "hard_drop"})
       => UNCHANGED <<GameState, game_running, status_var>>]_vars

C4_Witness ==
  /\ ~last.running_before
  /\ last.op \in {"try_move", "try_rotate", "tick", "hard_drop"}

\* C5: a spawn onto a colliding position ends the game in that step, a spawn
\* onto free cells leaves it Running, and nothing but a spawn moves the engine
\* to Ended.
C5_EndedExactlyOnFailedSpawn ==
  [][/\ last'.spawned =>
          /\ current_position' = <<(BOARD_WIDTH \div 2) - 2, 0>>
          /\ current_rotation' = 0
          /\ IF ValidNow' THEN Running' ELSE Ended'
     /\ (~Ended /\ Ended') => (last'.spawned /\ ~ValidNow')]_vars

C5_Witness == last.running_before /\ last.spawned /\ Ended /\ ~ValidNow

\* C6: at most one automatic tick is pending at any time.
C6_SingleTimerChain == pending <= 1

\* C7: while Paused or Ended a timer tick changes nothing and does not
\* reschedule itself, and only an unpause from Paused or a restart schedules a
\* tick.
C7_NoTickScheduledWhileStopped ==
  [][~Running =>
       /\ (last'.op = "tick" /\ ~last'.manual)
            => (UNCHANGED <<GameState, game_running, status_var>>
                /\ pending' = pending - 1)
       /\ pending' > pending
            => ((Paused /\ last'.op = "toggle_pause") \/ last'.op = "restart")]_vars

\* Number of occupied cells of a board.
Occupied(b) ==
  Cardinality({c \in (1..BOARD_HEIGHT) \X (1..BOARD_WIDTH) : b[c[1]][c[2]] # None})

\* C8: a lock that clears N lines adds N to lines_cleared and N*N*100 to the
\* score (N being the number of rows that left the board: the occupied cells
\* grow by the newly filled cells less BOARD_WIDTH per cleared row); a lock
\* that clears none leaves score, lines_cleared and tick_ms alone; nothing but
\* a lock or restart changes score or lines_cleared.
C8_Scoring ==
  [][/\ last'.locked =>
          /\ last'.cleared \in 0..4
          /\ Occupied(board') =
               Occupied(board)
               + Cardinality({c \in last'.written : board[c[2] + 1][c[1] + 1] = None})
               - BOARD_WIDTH * last'.cleared
          /\ lines_cleared' = lines_cleared + last'.cleared
          /\ score' = score + last'.cleared * last'.cleared * 100
          /\ last'.cleared = 1 => score' = score + 100
          /\ last'.cleared = 2 => score' = score + 400
          /\ last'.cleared = 3 => score' = score + 900
          /\ last'.cleared = 4 => score' = score + 1600
          /\ last'.cleared = 0 => UNCHANGED <<score, lines_cleared, tick_ms>>
     /\ (~last'.locked /\ last'.op # "restart") => UNCHANGED <<score, lines_cleared>>]_vars

C8_Witness == last.locked /\ last.cleared = 3 /\ score >= 900

\* C9: tick_ms is always max(MIN_TICK_MS, TICK_MS - lines_cleared *
\* SPEEDUP_PER_LINE), never below MIN_TICK_MS, and no step but restart
\* increases it.
C9_Interval ==
  /\ [](/\ tick_ms >= MIN_TICK_MS
        /\ tick_ms = IF TICK_MS - lines_cleared * SPEEDUP_PER_LINE >= MIN_TICK_MS
                     THEN TICK_MS - lines_cleared * SPEEDUP_PER_LINE
                     ELSE MIN_TICK_MS)
  /\ [][last'.op # "restart" => tick_ms' <= tick_ms]_vars

C9_Witness ==
  /\ last.locked
  /\ last.cleared > 0
  /\ TICK_MS - lines_cleared * SPEEDUP_PER_LINE < MIN_TICK_MS
  /\ tick_ms = MIN_TICK_MS

\* C10: clear_lines returns the number of full rows, keeps BOARD_HEIGHT rows,
\* keeps the other rows unchanged and in order at the bottom, under as many
\* empty rows as it removed.
FullRows(b) == {y \in 1..Len(b) : \A x \in 1..BOARD_WIDTH : b[y][x] # None}
\* The index of the k-th row of b that is not full.
Kept(b, k) ==
  CHOOSE y \in (1..Len(b)) \ FullRows(b) :
    Cardinality({z \in (1..y) \ FullRows(b) : TRUE}) = k

C10_ClearLines ==
  [][last'.op = "clear_lines" =>
       LET n == Cardinality(FullRows(board))
       IN /\ last'.cleared = n
          /\ Len(board') = BOARD_HEIGHT
          /\ \A y \in 1..n : board'[y] = EmptyRow
          /\ \A k \in 1..(BOARD_HEIGHT - n) : board'[n + k] = board[Kept(board, k)]
          /\ FullRows(board) = {BOARD_HEIGHT} =>
               \A y \in 2..BOARD_HEIGHT : board'[y] = board[y - 1]]_vars

C10_Witness ==
  /\ last.op = "clear_lines"
  /\ last.cleared = 2
  /\ board[1] = EmptyRow /\ board[2] = EmptyRow /\ board[3] # EmptyRow
  /\ board[BOARD_HEIGHT] # EmptyRow

\* The program's fields of an application value.
Fields(g) ==
  <<g.board, g.current_shape, g.current_rotation, g.current_position,
    g.next_shape, g.score, g.lines_cleared, g.tick_ms, g.game_running,
    g.status_var, g.r_bound>>

\* Manual ticks applied up to and including the first one that locks.
RECURSIVE TickUntilLock(_, _)
TickUntilLock(g, rnd) ==
  CHOOSE r \in {IF g1.locked THEN g1 ELSE TickUntilLock(g1, rnd) :
                  g1 \in {tick(g, TRUE, rnd)}} : TRUE

\* The cells of the active piece of the current state put at row y.
CellsAt(y) ==
  LET blocks == get_blocks(Self, <<current_position[1], y>>, current_rotation)
  IN {blocks[i] : i \in 1..Len(blocks)}
ValidAt(y) == is_valid_position(Self, <<current_position[1], y>>, current_rotation)

\* The program's fields of an application value and what its last handler did.
Outcome(g) == <<Fields(g), g.locked, g.written, g.cleared, g.spawned>>

\* hard_drop did what manual ticks up to the first lock do (same random shape):
\* one lock, the same fields, and no timer scheduled.
HardDropAsTicks ==
  /\ last'.locked
  /\ pending' = pending
  /\ \A t \in {TickUntilLock(Self, next_shape')} :
       Outcome(t)
         = <<Fields(Self'), last'.locked, last'.written, last'.cleared, last'.spawned>>

\* C11 as stated: hard_drop equals manual ticks up to the first lock, and locks
\* at the lowest valid position of the column in the current rotation.
C11_LowestValidOfColumn ==
  [][(Running /\ last'.op = "hard_drop") =>
       /\ HardDropAsTicks
       /\ \E yr \in current_position[2]..BOARD_HEIGHT :
            /\ last'.written = CellsAt(yr)
            /\ ValidAt(yr)
            /\ \A z \in (yr + 1)..BOARD_HEIGHT : ~ValidAt(z)]_vars

\* C11 (amended): hard_drop equals manual ticks up to the first lock, and locks
\* once, where the straight descent from the current position ends: every row
\* passed through is valid and the row below the lock position is not.
C11_HardDropEqualsTicks ==
  [][(Running /\ last'.op = "hard_drop") =>
       /\ HardDropAsTicks
       /\ \E yr \in current_position[2]..BOARD_HEIGHT :
            /\ last'.written = CellsAt(yr)
            /\ \A z \in (current_position[2] + 1)..yr : ValidAt(z)
            /\ ~ValidAt(yr + 1)]_vars

C11_Witness ==
  /\ last.op = "hard_drop"
  /\ last.running_before
  /\ last.locked
  /\ \E c \in last.written : c[2] >= last.from_pos[2] + 5

\* C12: after restart, from whatever state it was called in, the board is
\* empty, score and lines_cleared are 0, the tick interval is the base
\* interval, and the game is Running with a freshly spawned valid piece at
\* rotation 0 (the spawn onto the empty board did not fail).
C12_RestartResets ==
  last.op = "restart" =>
    /\ board = EmptyBoard
    /\ score = 0
    /\ lines_cleared = 0
    /\ tick_ms = TICK_MS
    /\ Running
    /\ status_var = StatusClear
    /\ last.spawned
    /\ ~last.locked
    /\ current_shape \in ShapeNames
    /\ next_shape \in ShapeNames
    /\ current_rotation = 0
    /\ ValidNow

\* restart pressed in Ended, with a piece other than the one that collided.
C12_Witness ==
  /\ last.op = "restart"
  /\ ~last.running_before
  /\ current_shape # "I"

\* The fields of the game other than the position of the active piece.
AllButPosition ==
  <<board, current_shape, current_rotation, next_shape, score, lines_cleared,
    tick_ms, game_running, status_var, pending>>

\* C13: a move in Running commits current + (dx, dy) iff is_valid_position
\* holds for it with the current rotation, and is otherwise rejected with
\* nothing changed (so a move to the left with a cell in column 0 leaves the
\* position unchanged); a move never changes the board or the rotation.
C13_MoveCommitsIffValid ==
  [][(Running /\ last'.op = "try_move") =>
       \A cand \in {<<current_position[1] + last'.asked[1],
                       current_position[2] + last'.asked[2]>>} :
         /\ last'.asked \in {<<-1, 0>>, <<1, 0>>}
         /\ is_valid_position(Self, cand, current_rotation) => current_position' = cand
         /\ ~is_valid_position(Self, cand, current_rotation)
              => current_position' = current_position
         /\ (last'.asked = <<-1, 0>> /\ \E c \in CellsAt(current_position[2]) : c[1] = 0)
              => current_position' = current_position
         /\ UNCHANGED AllButPosition
         /\ ~last'.locked /\ ~last'.spawned]_vars

\* A move to the left was rejected at the left wall.
C13_Witness ==
  /\ last.op = "try_move"
  /\ last.running_before
  /\ last.asked = <<-1, 0>>
  /\ last.from_pos = current_position
  /\ \E c \in CellsAt(current_position[2]) : c[1] = 0

\* The number of rotation states of the current shape.
RotationCount == Len(SHAPES[current_shape].rotations)

\* The fields of the game other than the rotation of the active piece.
AllButRotation ==
  <<board, current_shape, current_position, next_shape, score, lines_cleared,
    tick_ms, game_running, status_var, pending>>

\* The stored rotation index is within [0, rotation-state count).
RotationInRange == current_rotation \in 0..(RotationCount - 1)

\* C14: rotate in Running sets the rotation index to (current + 1) mod the
\* rotation-state count iff that rotation is valid at the unchanged position,
\* and otherwise changes nothing; the position is never altered; for the
\* square piece position and rotation index stay unchanged; the stored index
\* is always within [0, rotation-state count).
C14_RotateNoKick ==
  /\ RotationInRange
  /\ [][/\ RotationInRange'
        /\ (Running /\ last'.op = "try_rotate") =>
             \A new_rot \in {(current_rotation + 1) % RotationCount} :
               /\ is_valid_position(Self, current_position, new_rot)
                    => current_rotation' = new_rot
               /\ ~is_valid_position(Self, current_position, new_rot)
                    => current_rotation' = current_rotation
               /\ current_shape = "O" => current_rotation' = current_rotation
               /\ UNCHANGED AllButRotation
               /\ ~last'.locked /\ ~last'.spawned]_vars

\* A rotation of a piece with more than one rotation state was rejected.
C14_Witness ==
  /\ last.op = "try_rotate"
  /\ last.running_before
  /\ ~last.locked
  /\ RotationCount > 1
  /\ last.from_rot = current_rotation
  /\ last.from_pos = current_position

\* On the empty board the spawn position is valid for each of the 7 shapes, and
\* the first spawn of a new game does not end it.
SpawnsOnEmptyBoard ==
  /\ \A shape \in ShapeNames :
       \A g \in {[board |-> EmptyBoard, current_shape |-> shape]} :
         is_valid_position(g, <<(BOARD_WIDTH \div 2) - 2, 0>>, 0)
  /\ \A first \in ShapeNames, rnd \in ShapeNames :
       \A g \in {Construct(first, rnd)} :
         g.board = EmptyBoard /\ g.spawned /\ g.game_running

\* C15: a spawn makes the previous NextPiece the active piece at rotation 0
\* with origin (BOARD_WIDTH / 2 - 2, 0) = (3, 0) and replaces NextPiece by one
\* of the 7 shapes; on the empty board the spawn is valid for each of the 7
\* shapes.
C15_Spawn ==
  /\ SpawnsOnEmptyBoard
  /\ [][last'.spawned =>
          /\ last'.op # "restart" => current_shape' = next_shape
          /\ current_shape' \in ShapeNames
          /\ next_shape' \in ShapeNames
          /\ current_rotation' = 0
          /\ current_position' = <<(BOARD_WIDTH \div 2) - 2, 0>>
          /\ current_position' = <<3, 0>>
          /\ board' = EmptyBoard => (Running' /\ ValidNow')]_vars

\* A piece locked, the lines it completed left the board empty, and the next
\* piece spawned onto it.
C15_Witness ==
  /\ last.spawned
  /\ last.locked
  /\ last.cleared > 0
  /\ board = EmptyBoard
  /\ Running

\* The fields a tick that moves the piece leaves alone.
AllButRow ==
  <<board, current_shape, current_rotation, current_position[1], next_shape,
    score, lines_cleared, tick_ms, game_running, status_var>>

\* C16: a tick in Running, from the timer or from <Down>, either moves the
\* piece down by exactly one row with board, rotation, x, score and
\* lines_cleared unchanged, when the position one row lower is valid, or, when
\* it is not, locks the piece at its current position, clears lines and
\* spawns; never both, never more than one row; the timer tick queues the
\* next one while the game runs and is otherwise the same.
C16_TickMovesOrLocks ==
  [][(Running /\ last'.op = "tick") =>
       /\ ValidAt(current_position[2] + 1) =>
            /\ current_position' = <<current_position[1], current_position[2] + 1>>
            /\ UNCHANGED AllButRow
            /\ ~last'.locked /\ ~last'.spawned
       /\ ~ValidAt(current_position[2] + 1) =>
            /\ last'.locked /\ last'.spawned
            /\ last'.written = CellsAt(current_position[2])
            /\ \A blocks \in {get_blocks(Self, current_position, current_rotation)} :
                 \A cl \in {clear_lines(write_blocks(board, blocks,
                                                     SHAPES[current_shape].color, 1))} :
                   board' = cl.board /\ last'.cleared = cl.cleared
            /\ current_shape' = next_shape
       /\ \A rnd \in {next_shape'} :
            \A t \in {tick(Self, ~last'.manual, rnd)} :
              Fields(t) = Fields(Self')
       /\ pending' = IF ~last'.manual /\ ~game_running' THEN pending - 1 ELSE pending]_vars

\* A timer tick locked a piece that had come down at least one row.
C16_Witness ==
  /\ last.op = "tick"
  /\ ~last.manual
  /\ last.running_before
  /\ last.locked
  /\ steps >= 2

\* C17: for each of the 7 shapes and every integer index, the lookup returns
\* the rotation state at index mod the number of rotation states, and that
\* state is 4 pairwise distinct offset cells with 0 <= x <= 3 and 0 <= y <= 3.
C17_RotationLookup ==
  last.op = "rotation" =>
    LET rotations == SHAPES[current_shape].rotations
        n == Len(rotations)
        res == last.result
    IN /\ \E k \in 0..(n - 1) :
            /\ \E q \in (0 - MaxIndex - 1)..(MaxIndex + 1) : current_rotation = q * n + k
            /\ res = rotations[k + 1]
       /\ Len(res) = 4
       /\ Cardinality({res[i] : i \in 1..Len(res)}) = 4
       /\ \A i \in 1..Len(res) : res[i][1] \in 0..3 /\ res[i][2] \in 0..3

\* A negative index looked up in a shape of four rotation states, with the
\* state that is not the first returned.
C17_Witness ==
  /\ last.op = "rotation"
  /\ current_rotation < 0
  /\ Len(SHAPES[current_shape].rotations) = 4
  /\ last.result # SHAPES[current_shape].rotations[1]

\* C18: after every completed operation (tick, hard_drop, move, rotate,
\* toggle_pause, restart) the board has no fully occupied row.
C18_NoFullRow == FullRows(board) = {}

\* A lock completed a row, the row is gone and the cells above it are left.
C18_Witness ==
  /\ last.locked
  /\ last.cleared = 1
  /\ Occupied(board) > 0

\* The cells of the active piece.
CellsNow == CellsAt(current_position[2])

\* C19: in every reachable state, Ended included, the origin of the active
\* piece has y >= 0 and its 4 cells lie inside the grid; so every lock writes
\* all 4 cells (the skip of negative rows is never taken), and a spawn that
\* ends the game fails by collision with an occupied cell, not by being out
\* of bounds.
C19_PieceInsideGrid ==
  /\ current_position[2] >= 0
  /\ Cardinality(CellsNow) = 4
  /\ \A c \in CellsNow : InGrid(c)
  /\ last.locked =>
       /\ Cardinality(last.written) = 4
       /\ \A c \in last.written : InGrid(c)
  /\ (last.spawned /\ ~game_running) =>
       \E c \in CellsNow : InGrid(c) /\ board[c[2] + 1][c[1] + 1] # None

\* The game is over: the piece spawned inside the grid, on an occupied cell.
C19_Witness ==
  /\ Ended
  /\ last.locked
  /\ current_position = <<3, 0>>
  /\ \E c \in CellsNow : board[c[2] + 1][c[1] + 1] # None

\* C20: while the game stays Running and ticks are delivered, the active piece
\* is locked after at most BOARD_HEIGHT ticks whatever moves and rotations
\* are interleaved: a tick stays queued while the piece falls, every tick
\* received has lowered the piece by one row, no operation has raised it, and
\* hard_drop lowers it by fewer than BOARD_HEIGHT rows before it locks. With
\* the weak fairness of SpecFall on the timer tick the piece eventually locks.
C20_LocksWithinBoardHeightTicks ==
  /\ steps <= BOARD_HEIGHT
  /\ Falling =>
       /\ pending > 0
       /\ steps < BOARD_HEIGHT
       /\ current_position[2] >= steps
       /\ last.op # "init" => current_position[2] >= last.from_pos[2]
       /\ last.op = "tick" => current_position[2] = last.from_pos[2] + 1
  /\ (last.op = "hard_drop" /\ last.running_before) =>
       /\ last.locked
       /\ \A c \in last.written :
            c[2] >= last.from_pos[2] /\ c[2] - last.from_pos[2] < BOARD_HEIGHT

\* The square piece of a new game came down the whole empty board by ticks
\* and locked on the floor.
C20_Witness ==
  /\ last.op = "tick"
  /\ last.locked
  /\ steps >= BOARD_HEIGHT - 1
  /\ \E c \in last.written : c[2] = BOARD_HEIGHT - 1

====
